---- MODULE Spec2Model ----
(***************************************************************************)
(* Model of scripts/cleanup-duplicates.py: DuplicateDetector.normalize_name, *)
(* DuplicateDetector.find_duplicates, cleanup_duplicates and the part of    *)
(* main that runs once the artists are fetched.                             *)
(*                                                                          *)
(* A Python str is a sequence of characters; a character is a one-element   *)
(* token: "a", "A", " ", "(", "2", "'" ...  Three characters that are not   *)
(* ASCII or not printable are spelled by name: "tab" (U+0009), "bdquo"      *)
(* (U+201E, the low double quote that the source regex lists) and "rsquo"   *)
(* (U+2019, the curly apostrophe).                                          *)
(*                                                                          *)
(* A Python dict is insertion ordered: it is a sequence of <<key, value>>   *)
(* pairs in which no key occurs twice.                                      *)
(***************************************************************************)
EXTENDS Integers, Sequences, FiniteSets, TLC

VARIABLES
    artists,              \* find_duplicates: the argument, a list of artist dicts
    pc,                   \* find_duplicates: position of control
    idx,                  \* find_duplicates: position of the running for loop
    numbered_duplicates,  \* dict: normalized base -> dict: number -> record
    name_groups,          \* defaultdict(list): normalized name -> list of artists
    duplicates,           \* dict: base name -> list of records (the result)
    log,                  \* the "Found ... duplicates" lines written by safe_log
    name,                 \* normalize_name: the argument
    normalized,           \* normalize_name: the local variable
    npc,                  \* normalize_name: position of control
    calls,                \* normalize_name: number of the running application
    result,               \* normalize_name: the value returned
    args,                 \* main: the flags --dry-run and --auto-confirm
    mpc,                  \* main and cleanup_duplicates: position of control
    response,             \* main: the answer to the confirmation prompt
    shown,                \* main: display_duplicates_summary was called
    deleted,              \* the ids api.delete_artist was called with, in order
    successful,           \* cleanup_duplicates: counter of removals
    failed,               \* cleanup_duplicates: counter of failures
    at,                   \* cleanup_duplicates: <<group, duplicate>> of the loops
    exit_code             \* main: the value returned, -1 while it runs

vars == <<artists, pc, idx, numbered_duplicates, name_groups, duplicates, log,
          name, normalized, npc, calls, result,
          args, mpc, response, shown, deleted, successful, failed, at, exit_code>>

fdVars == <<artists, pc, idx, numbered_duplicates, name_groups, duplicates, log>>
nnVars == <<name, normalized, npc, calls, result>>
cdVars == <<args, mpc, response, shown, deleted, successful, failed, at, exit_code>>

----------------------------------------------------------------------------
(* Bounds *)

MaxArtists == 4     \* longest list of artists handed to find_duplicates
MaxParts == 4       \* most fragments a name handed to normalize_name is made of

----------------------------------------------------------------------------
(* Characters *)

Whitespace == {" ", "tab"}

Digits == {"0", "1", "2", "3"}

\* str.lower() on one character
LowerChar(c) ==
    CASE c = "A" -> "a"
      [] c = "B" -> "b"
      [] c = "T" -> "t"
      [] OTHER -> c

DigitValue(c) ==
    CASE c = "0" -> 0
      [] c = "1" -> 1
      [] c = "2" -> 2
      [] c = "3" -> 3

\* the character class of the first re.sub of normalize_name, as the source
\* file spells it: U+0022, U+0027 (each twice) and U+201E
QuoteChars == {"\"", "'", "bdquo"}

----------------------------------------------------------------------------
(* str methods *)

NonSpace(s) == {k \in 1..Len(s) : s[k] \notin Whitespace}

Min(S) == CHOOSE m \in S : \A o \in S : m <= o
Max(S) == CHOOSE m \in S : \A o \in S : m >= o

\* str.strip()
Strip(s) ==
    IF NonSpace(s) = {} THEN <<>>
    ELSE SubSeq(s, Min(NonSpace(s)), Max(NonSpace(s)))

\* str.lower()
Lower(s) == [k \in 1..Len(s) |-> LowerChar(s[k])]

\* str.startswith(prefix)
StartsWith(s, prefix) ==
    /\ Len(s) >= Len(prefix)
    /\ SubSeq(s, 1, Len(prefix)) = prefix

\* re.sub(r'["\'''""„]', '', s)
RemoveQuotes(s) == SelectSeq(s, LAMBDA c : c \notin QuoteChars)

\* re.sub(r'\s+', ' ', s): each maximal run of whitespace becomes one space
RECURSIVE CollapseFrom(_, _)
CollapseFrom(s, k) ==
    IF k > Len(s) THEN <<>>
    ELSE IF s[k] \notin Whitespace THEN <<s[k]>> \o CollapseFrom(s, k + 1)
    ELSE IF k > 1 /\ s[k - 1] \in Whitespace THEN CollapseFrom(s, k + 1)
    ELSE <<" ">> \o CollapseFrom(s, k + 1)

CollapseSpaces(s) == CollapseFrom(s, 1)

The == <<"t", "h", "e", " ">>

\* if normalized.startswith('the '): normalized = normalized[4:]
DropThe(s) == IF StartsWith(s, The) THEN SubSeq(s, 5, Len(s)) ELSE s

\* DuplicateDetector.normalize_name
normalize_name(n) ==
    IF n = <<>> THEN <<>>
    ELSE DropThe(CollapseSpaces(RemoveQuotes(Strip(Lower(n)))))

----------------------------------------------------------------------------
(* DUPLICATE_PATTERN = re.compile(r'^(.+?)\s*\((\d+)\)$') *)

\* where the "(" of the trailing "(digits)" stands: the name ends with ")",
\* one or more digits stand before it, "(" before them and at least one
\* character before that (no name of the model holds a line break)
OpenParen(s) ==
    {p \in 2..(Len(s) - 2) :
        /\ s[Len(s)] = ")"
        /\ s[p] = "("
        /\ \A k \in (p + 1)..(Len(s) - 1) : s[k] \in Digits}

\* DUPLICATE_PATTERN.match(s) is not None
Matches(s) == OpenParen(s) # {}

\* match.group(1): the shortest non-empty prefix that only whitespace
\* separates from the "("
Group1(s) ==
    LET p == CHOOSE q \in OpenParen(s) : TRUE
        before == SubSeq(s, 1, p - 1)
    IN  IF NonSpace(before) = {} THEN SubSeq(s, 1, 1)
        ELSE SubSeq(s, 1, Max(NonSpace(before)))

\* match.group(2)
Group2(s) ==
    LET p == CHOOSE q \in OpenParen(s) : TRUE
    IN  SubSeq(s, p + 1, Len(s) - 1)

\* int(digits)
RECURSIVE ParseInt(_)
ParseInt(d) ==
    IF d = <<>> THEN 0
    ELSE 10 * ParseInt(SubSeq(d, 1, Len(d) - 1)) + DigitValue(d[Len(d)])

----------------------------------------------------------------------------
(* dict *)

Keys(d) == {d[j].k : j \in DOMAIN d}

\* d[key]
Get(d, key) == d[CHOOSE j \in DOMAIN d : d[j].k = key].v

\* d[key] = val: a known key keeps its place, a new one goes last
Put(d, key, val) ==
    IF key \in Keys(d)
    THEN [j \in DOMAIN d |-> IF d[j].k = key THEN [k |-> key, v |-> val] ELSE d[j]]
    ELSE Append(d, [k |-> key, v |-> val])

\* d[key] when the key is known, otherwise what a fresh entry starts as
GetOr(d, key, fresh) == IF key \in Keys(d) THEN Get(d, key) ELSE fresh

\* list(d.keys())
KeyList(d) == [j \in DOMAIN d |-> d[j].k]

RECURSIVE Ascending(_)
Ascending(S) ==
    IF S = {} THEN <<>> ELSE <<Min(S)>> \o Ascending(S \ {Min(S)})

\* sorted(d.keys())
SortedKeys(d) == Ascending(Keys(d))

----------------------------------------------------------------------------
(* The artists find_duplicates is handed *)

NameA == <<"a">>
NameTheA == <<"T", "h", "e", " ", "A">>
NameB == <<"b">>
NameA2 == <<"a", " ", "(", "2", ")">>
NameA3 == <<"a", " ", "(", "3", ")">>
NameA03 == <<"a", " ", "(", "0", "3", ")">>
NameA3Space == <<"a", " ", "(", "3", ")", " ">>
NameNone2 == <<" ", "(", "2", ")">>
NameEmpty == <<>>

ArtistNames ==
    {NameA, NameTheA, NameB, NameA2, NameA3, NameA03, NameNone2, NameEmpty}

\* an artist dict with or without the key 'artistName'
ArtistFields ==
    [hasName : {TRUE}, artistName : ArtistNames]
        \cup {[hasName |-> FALSE, artistName |-> <<>>]}

\* names around one numeric suffix: "a (3) " ends in a space, so it does not
\* match DUPLICATE_PATTERN, and normalizes to the same name as "a (3)"
SuffixedNames == {NameA, NameA2, NameA3, NameA3Space, NameNone2}

SuffixedFields ==
    [hasName : {TRUE}, artistName : SuffixedNames]
        \cup {[hasName |-> FALSE, artistName |-> <<>>]}

\* artist.get('artistName', '')
GetName(artist) == IF artist.hasName THEN artist.artistName ELSE <<>>

----------------------------------------------------------------------------
(* DuplicateDetector.find_duplicates *)

\* the record kept for one duplicate
Record(artist, original_name, base_name) ==
    [artist |-> artist, original_name |-> original_name, base_name |-> base_name]

\* the statements run on a match of DUPLICATE_PATTERN:
\* numbered_duplicates[normalized_base][number] = {...}
StoreNumbered(nd, artist) ==
    LET nm == GetName(artist)
        base_name == Strip(Group1(nm))
        number == ParseInt(Group2(nm))
        normalized_base == normalize_name(base_name)
    IN  Put(nd, normalized_base,
            Put(GetOr(nd, normalized_base, <<>>), number,
                Record(artist, nm, base_name)))

\* name_groups[normalized].append(artist)
StoreGroup(ng, key, artist) == Put(ng, key, Append(GetOr(ng, key, <<>>), artist))

\* one round of "for artist in artists"
CollectArtist ==
    /\ pc = "collect"
    /\ idx <= Len(artists)
    /\ LET artist == artists[idx]
           nm == GetName(artist)
       IN  IF nm = <<>>
           THEN UNCHANGED <<numbered_duplicates, name_groups>>
           ELSE /\ numbered_duplicates' =
                       IF Matches(nm)
                       THEN StoreNumbered(numbered_duplicates, artist)
                       ELSE numbered_duplicates
                /\ name_groups' =
                       IF normalize_name(nm) # <<>>
                       THEN StoreGroup(name_groups, normalize_name(nm), artist)
                       ELSE name_groups
    /\ idx' = idx + 1
    /\ UNCHANGED <<artists, pc, duplicates, log>>

\* "for artist in artists" is exhausted
CollectEnd ==
    /\ pc = "collect"
    /\ idx > Len(artists)
    /\ pc' = "numbered"
    /\ idx' = 1
    /\ UNCHANGED <<artists, numbered_duplicates, name_groups, duplicates, log>>

\* IsOriginal gone wrong: the suffix is cut off before the comparison and a
\* numbered name is not excluded
IsOriginalByBase(artist, normalized_base) ==
    LET nm == GetName(artist)
    IN  normalize_name(IF Matches(nm) THEN Strip(Group1(nm)) ELSE nm)
            = normalized_base

\* the test of the list comprehension original_candidates
IsOriginal(artist, normalized_base) ==
    /\ normalize_name(GetName(artist)) = normalized_base
    /\ ~Matches(GetName(artist))

original_candidates(normalized_base) ==
    SelectSeq(artists, LAMBDA artist : IsOriginal(artist, normalized_base))

\* RemovalOrder gone wrong: sorted() forgotten
RemovalOrderUnsorted(numbered_artists) == KeyList(numbered_artists)

\* the order "for number in sorted(numbered_artists.keys())" visits
RemovalOrder(numbered_artists) == SortedKeys(numbered_artists)

\* duplicates[base_name] once the numbered duplicates are appended
NumberedList(numbered_artists) ==
    LET order == RemovalOrder(numbered_artists)
    IN  [j \in DOMAIN order |-> Get(numbered_artists, order[j])]

\* one round of "for normalized_base, numbered_artists in ..." that ends
\* without an exception
NumberedGroup ==
    /\ pc = "numbered"
    /\ idx <= Len(numbered_duplicates)
    /\ LET normalized_base == numbered_duplicates[idx].k
           numbered_artists == numbered_duplicates[idx].v
           candidates == original_candidates(normalized_base)
       IN  IF candidates # <<>>
           THEN /\ candidates[1].hasName
                /\ duplicates' = Put(duplicates, candidates[1].artistName,
                                     NumberedList(numbered_artists))
                /\ log' = Append(log, [kind |-> "numbered",
                                       base_name |-> candidates[1].artistName,
                                       found |-> KeyList(numbered_artists)])
           ELSE UNCHANGED <<duplicates, log>>
    /\ idx' = idx + 1
    /\ UNCHANGED <<artists, pc, numbered_duplicates, name_groups>>

\* original_candidates[0]['artistName'] on an artist without that key
NumberedKeyError ==
    /\ pc = "numbered"
    /\ idx <= Len(numbered_duplicates)
    /\ LET candidates == original_candidates(numbered_duplicates[idx].k)
       IN  /\ candidates # <<>>
           /\ ~candidates[1].hasName
    /\ pc' = "raised"
    /\ UNCHANGED <<artists, idx, numbered_duplicates, name_groups, duplicates, log>>

\* the numbered loop is exhausted
NumberedEnd ==
    /\ pc = "numbered"
    /\ idx > Len(numbered_duplicates)
    /\ pc' = "exact"
    /\ idx' = 1
    /\ UNCHANGED <<artists, numbered_duplicates, name_groups, duplicates, log>>

\* the any(...) of the exact pass: some group's first record normalizes to
\* the key at hand
FirstRecordMatches(dups, key) ==
    \E j \in DOMAIN dups : \E m \in DOMAIN dups[j].v :
        normalize_name(dups[j].v[1].artist.artistName) = key

\* "this isn't already handled by numbered duplicates"
NotHandled(dups, key) ==
    /\ key \notin Keys(dups)
    /\ ~FirstRecordMatches(dups, key)

\* HasCopies gone wrong: len(group) >= 1
HasCopiesOffByOne(group) == Len(group) >= 1

\* len(group) > 1
HasCopies(group) == Len(group) > 1

\* Copies gone wrong: group[0:]
CopiesFromFirst(group) == group

\* group[1:]
Copies(group) == Tail(group)

\* duplicates[base_name] once the exact duplicates are appended
ExactList(group) ==
    LET base_name == GetName(group[1])
        others == Copies(group)
    IN  [j \in DOMAIN others |->
            Record(others[j], GetName(others[j]), base_name)]

\* one round of "for normalized, group in name_groups.items()"
ExactGroup ==
    /\ pc = "exact"
    /\ idx <= Len(name_groups)
    /\ LET key == name_groups[idx].k
           group == name_groups[idx].v
       IN  IF HasCopies(group) /\ NotHandled(duplicates, key)
           THEN /\ duplicates' = Put(duplicates, GetName(group[1]), ExactList(group))
                /\ log' = Append(log, [kind |-> "exact",
                                       base_name |-> GetName(group[1]),
                                       found |-> Len(group) - 1])
           ELSE UNCHANGED <<duplicates, log>>
    /\ idx' = idx + 1
    /\ UNCHANGED <<artists, pc, numbered_duplicates, name_groups>>

\* return duplicates
Return ==
    /\ pc = "exact"
    /\ idx > Len(name_groups)
    /\ pc' = "done"
    /\ UNCHANGED <<artists, idx, numbered_duplicates, name_groups, duplicates, log>>

\* main is not running
MainIdle ==
    /\ args = [dry_run |-> FALSE, auto_confirm |-> FALSE]
    /\ mpc = "idle"
    /\ response = "none"
    /\ shown = FALSE
    /\ deleted = <<>>
    /\ successful = 0
    /\ failed = 0
    /\ at = <<1, 1>>
    /\ exit_code = -1

\* artists: any list of at most MaxArtists dicts with pairwise distinct ids
Init ==
    /\ \E n \in 0..MaxArtists : \E fields \in [1..n -> ArtistFields] :
           artists = [j \in 1..n |->
                         [id |-> j, hasName |-> fields[j].hasName,
                          artistName |-> fields[j].artistName]]
    /\ pc = "collect"
    /\ idx = 1
    /\ numbered_duplicates = <<>>
    /\ name_groups = <<>>
    /\ duplicates = <<>>
    /\ log = <<>>
    /\ name = <<>>
    /\ normalized = <<>>
    /\ npc = "idle"
    /\ calls = 0
    /\ result = <<>>
    /\ MainIdle

Next ==
    \/ CollectArtist /\ UNCHANGED <<nnVars, cdVars>>
    \/ CollectEnd /\ UNCHANGED <<nnVars, cdVars>>
    \/ NumberedGroup /\ UNCHANGED <<nnVars, cdVars>>
    \/ NumberedKeyError /\ UNCHANGED <<nnVars, cdVars>>
    \/ NumberedEnd /\ UNCHANGED <<nnVars, cdVars>>
    \/ ExactGroup /\ UNCHANGED <<nnVars, cdVars>>
    \/ Return /\ UNCHANGED <<nnVars, cdVars>>

Spec == Init /\ [][Next]_vars

\* artists: any list of at most MaxArtists dicts named from SuffixedNames
InitSuffixed ==
    /\ \E n \in 0..MaxArtists : \E fields \in [1..n -> SuffixedFields] :
           artists = [j \in 1..n |->
                         [id |-> j, hasName |-> fields[j].hasName,
                          artistName |-> fields[j].artistName]]
    /\ pc = "collect"
    /\ idx = 1
    /\ numbered_duplicates = <<>>
    /\ name_groups = <<>>
    /\ duplicates = <<>>
    /\ log = <<>>
    /\ name = <<>>
    /\ normalized = <<>>
    /\ npc = "idle"
    /\ calls = 0
    /\ result = <<>>
    /\ MainIdle

SpecSuffixed == InitSuffixed /\ [][Next]_vars

----------------------------------------------------------------------------
(* DuplicateDetector.normalize_name, statement by statement *)

\* if not name: return ""
ReturnEmpty ==
    /\ npc = "start"
    /\ name = <<>>
    /\ result' = <<>>
    /\ npc' = "returned"
    /\ UNCHANGED <<name, normalized, calls>>

\* normalized = name.lower().strip()
LowerAndStrip ==
    /\ npc = "start"
    /\ name # <<>>
    /\ normalized' = Strip(Lower(name))
    /\ npc' = "punctuation"
    /\ UNCHANGED <<name, calls, result>>

\* normalized = re.sub(r'["\'''""„]', '', normalized)
RemovePunctuation ==
    /\ npc = "punctuation"
    /\ normalized' = RemoveQuotes(normalized)
    /\ npc' = "spaces"
    /\ UNCHANGED <<name, calls, result>>

\* normalized = re.sub(r'\s+', ' ', normalized)
RemoveExtraSpaces ==
    /\ npc = "spaces"
    /\ normalized' = CollapseSpaces(normalized)
    /\ npc' = "prefix"
    /\ UNCHANGED <<name, calls, result>>

\* if normalized.startswith('the '): normalized = normalized[4:]
HandleThePrefix ==
    /\ npc = "prefix"
    /\ normalized' = DropThe(normalized)
    /\ npc' = "return"
    /\ UNCHANGED <<name, calls, result>>

\* return normalized
ReturnNormalized ==
    /\ npc = "return"
    /\ result' = normalized
    /\ npc' = "returned"
    /\ UNCHANGED <<name, normalized, calls>>

\* normalize_name(normalize_name(x)): the value returned is handed back in
NormalizeAgain ==
    /\ npc = "returned"
    /\ calls = 1
    /\ name' = result
    /\ normalized' = <<>>
    /\ calls' = 2
    /\ npc' = "start"
    /\ UNCHANGED result

\* the fragments the names handed to normalize_name are made of
Fragments ==
    {<<"T", "h", "e", " ">>, <<"t", "h", "e", " ">>, <<" ">>, <<"tab">>,
     <<"'">>, <<"rsquo">>, <<"a">>, <<"B">>}

RECURSIVE Concat(_)
Concat(parts) ==
    IF parts = <<>> THEN <<>> ELSE Head(parts) \o Concat(Tail(parts))

\* name: any concatenation of at most MaxParts fragments
InitNormalize ==
    /\ \E n \in 0..MaxParts : \E parts \in [1..n -> Fragments] :
           name = Concat(parts)
    /\ normalized = <<>>
    /\ npc = "start"
    /\ calls = 1
    /\ result = <<>>
    /\ artists = <<>>
    /\ pc = "idle"
    /\ idx = 1
    /\ numbered_duplicates = <<>>
    /\ name_groups = <<>>
    /\ duplicates = <<>>
    /\ log = <<>>
    /\ MainIdle

NextNormalize ==
    \/ ReturnEmpty /\ UNCHANGED <<fdVars, cdVars>>
    \/ LowerAndStrip /\ UNCHANGED <<fdVars, cdVars>>
    \/ RemovePunctuation /\ UNCHANGED <<fdVars, cdVars>>
    \/ RemoveExtraSpaces /\ UNCHANGED <<fdVars, cdVars>>
    \/ HandleThePrefix /\ UNCHANGED <<fdVars, cdVars>>
    \/ ReturnNormalized /\ UNCHANGED <<fdVars, cdVars>>
    \/ NormalizeAgain /\ UNCHANGED <<fdVars, cdVars>>

SpecNormalize == InitNormalize /\ [][NextNormalize]_vars

\* the statements of normalize_name compose to the operator find_duplicates uses
StepsAgree == npc = "returned" => result = normalize_name(name)

----------------------------------------------------------------------------
(* detector.find_duplicates(artists) as main calls it: the three loops run  *)
(* to their end in one go                                                   *)

\* "for artist in artists", from position i on
RECURSIVE CollectFrom(_, _, _)
CollectFrom(i, nd, ng) ==
    IF i > Len(artists) THEN [numbered_duplicates |-> nd, name_groups |-> ng]
    ELSE LET artist == artists[i]
             nm == GetName(artist)
         IN  IF nm = <<>> THEN CollectFrom(i + 1, nd, ng)
             ELSE CollectFrom(i + 1,
                      IF Matches(nm) THEN StoreNumbered(nd, artist) ELSE nd,
                      IF normalize_name(nm) # <<>>
                      THEN StoreGroup(ng, normalize_name(nm), artist)
                      ELSE ng)

\* "for normalized_base, numbered_artists in ...", from position q on
RECURSIVE NumberedFrom(_, _, _)
NumberedFrom(q, nd, dups) ==
    IF q > Len(nd) THEN [raised |-> FALSE, duplicates |-> dups]
    ELSE LET candidates == original_candidates(nd[q].k)
         IN  IF candidates = <<>> THEN NumberedFrom(q + 1, nd, dups)
             ELSE IF ~candidates[1].hasName
                  THEN [raised |-> TRUE, duplicates |-> dups]
                  ELSE NumberedFrom(q + 1, nd,
                           Put(dups, candidates[1].artistName, NumberedList(nd[q].v)))

\* "for normalized, group in name_groups.items()", from position q on
RECURSIVE ExactFrom(_, _, _)
ExactFrom(q, ng, dups) ==
    IF q > Len(ng) THEN dups
    ELSE IF HasCopies(ng[q].v) /\ NotHandled(dups, ng[q].k)
         THEN ExactFrom(q + 1, ng,
                  Put(dups, GetName(ng[q].v[1]), ExactList(ng[q].v)))
         ELSE ExactFrom(q + 1, ng, dups)

\* what the call returns, or that it raised
find_duplicates ==
    LET collected == CollectFrom(1, <<>>, <<>>)
        numbered == NumberedFrom(1, collected.numbered_duplicates, <<>>)
    IN  IF numbered.raised THEN numbered
        ELSE [raised |-> FALSE,
              duplicates |-> ExactFrom(1, collected.name_groups, numbered.duplicates)]

\* the loops run step by step end as the loops run in one go
LoopsAgree ==
    /\ pc = "done" => find_duplicates = [raised |-> FALSE, duplicates |-> duplicates]
    /\ pc = "raised" => find_duplicates.raised

----------------------------------------------------------------------------
(* cleanup_duplicates and LidarrAPI.delete_artist *)

\* sum(len(dupe_list) for dupe_list in duplicates.values())
RECURSIVE total_to_remove(_)
total_to_remove(dups) ==
    IF dups = <<>> THEN 0 ELSE Len(Head(dups).v) + total_to_remove(Tail(dups))

\* the first duplicate of the first group from g on that has one
RECURSIVE FirstFrom(_, _)
FirstFrom(dups, g) ==
    IF g > Len(dups) THEN <<g, 1>>
    ELSE IF dups[g].v # <<>> THEN <<g, 1>>
    ELSE FirstFrom(dups, g + 1)

\* the next round of "for dup in duplicate_list" or of the loop around it
NextAt(dups, pos) ==
    IF pos[2] < Len(dups[pos[1]].v) THEN <<pos[1], pos[2] + 1>>
    ELSE FirstFrom(dups, pos[1] + 1)

\* AfterMissingId gone wrong: break where the source has continue
AfterMissingIdBreak(dups, pos) == FirstFrom(dups, pos[1] + 1)

\* "continue" after "No ID found for artist"
AfterMissingId(dups, pos) == NextAt(dups, pos)

\* "if not artist_id": the key 'id' is absent, None or 0; the model writes 0
MissingId(artist) == artist.id = 0

\* ShortCircuits gone wrong: the dry-run test is lost
ShortCircuitsNever(dry_run) == FALSE

\* "if dry_run:" of cleanup_duplicates
ShortCircuits(dry_run) == dry_run

\* the dry-run branch: return total_to_remove, 0
CleanupDryRun ==
    /\ mpc = "cleanup"
    /\ duplicates # <<>>
    /\ ShortCircuits(args.dry_run)
    /\ successful' = total_to_remove(duplicates)
    /\ failed' = 0
    /\ mpc' = "final"
    /\ UNCHANGED <<args, response, shown, deleted, at, exit_code>>

\* successful = 0; failed = 0 and the loops start
CleanupStart ==
    /\ mpc = "cleanup"
    /\ duplicates # <<>>
    /\ ~ShortCircuits(args.dry_run)
    /\ successful' = 0
    /\ failed' = 0
    /\ at' = FirstFrom(duplicates, 1)
    /\ mpc' = "deleting"
    /\ UNCHANGED <<args, response, shown, deleted, exit_code>>

\* one round of the inner loop for a duplicate without an id
DeleteMissingId ==
    /\ mpc = "deleting"
    /\ at[1] <= Len(duplicates)
    /\ MissingId(duplicates[at[1]].v[at[2]].artist)
    /\ failed' = failed + 1
    /\ at' = AfterMissingId(duplicates, at)
    /\ UNCHANGED <<args, mpc, response, shown, deleted, successful, exit_code>>

\* one round of the inner loop with its call of api.delete_artist, which
\* returns True on status 200 and False on any other status or exception
DeleteArtist ==
    /\ mpc = "deleting"
    /\ at[1] <= Len(duplicates)
    /\ ~MissingId(duplicates[at[1]].v[at[2]].artist)
    /\ deleted' = Append(deleted, duplicates[at[1]].v[at[2]].artist.id)
    /\ \E ok \in BOOLEAN :
           /\ successful' = IF ok THEN successful + 1 ELSE successful
           /\ failed' = IF ok THEN failed ELSE failed + 1
    /\ at' = NextAt(duplicates, at)
    /\ UNCHANGED <<args, mpc, response, shown, exit_code>>

\* the loops are exhausted: return successful, failed
CleanupReturn ==
    /\ mpc = "deleting"
    /\ at[1] > Len(duplicates)
    /\ mpc' = "final"
    /\ UNCHANGED <<args, response, shown, deleted, successful, failed, at, exit_code>>

----------------------------------------------------------------------------
(* main, from "artists = api.get_artists()" on *)

\* if not artists: return 0
NoArtists ==
    /\ mpc = "fetched"
    /\ artists = <<>>
    /\ exit_code' = 0
    /\ mpc' = "exit"
    /\ UNCHANGED <<duplicates, args, response, shown, deleted, successful, failed, at>>

\* duplicates = detector.find_duplicates(artists)
DetectDuplicates ==
    /\ mpc = "fetched"
    /\ artists # <<>>
    /\ ~find_duplicates.raised
    /\ duplicates' = find_duplicates.duplicates
    /\ mpc' = "display"
    /\ UNCHANGED <<args, response, shown, deleted, successful, failed, at, exit_code>>

\* display_duplicates_summary(duplicates)
DisplaySummary ==
    /\ mpc = "display"
    /\ shown' = TRUE
    /\ mpc' = "confirm"
    /\ UNCHANGED <<duplicates, args, response, deleted, successful, failed, at, exit_code>>

\* if not duplicates: return 0
NoDuplicates ==
    /\ mpc = "confirm"
    /\ duplicates = <<>>
    /\ exit_code' = 0
    /\ mpc' = "exit"
    /\ UNCHANGED <<duplicates, args, response, shown, deleted, successful, failed, at>>

\* "if not args.dry_run and not args.auto_confirm" is false: no prompt
NoPrompt ==
    /\ mpc = "confirm"
    /\ duplicates # <<>>
    /\ args.dry_run \/ args.auto_confirm
    /\ mpc' = "cleanup"
    /\ UNCHANGED <<duplicates, args, response, shown, deleted, successful, failed, at,
                   exit_code>>

\* what input(...).strip().lower() may give
Answers == {"yes", "y", "no", ""}

\* ConfirmedBy gone wrong: everything but "no" confirms
ConfirmedUnlessNo(answer) == answer # "no"

\* response in ('yes', 'y')
ConfirmedBy(answer) == answer \in {"yes", "y"}

\* the prompt is answered with yes
PromptConfirmed ==
    /\ mpc = "confirm"
    /\ duplicates # <<>>
    /\ ~args.dry_run /\ ~args.auto_confirm
    /\ \E answer \in Answers :
           /\ ConfirmedBy(answer)
           /\ response' = answer
    /\ mpc' = "cleanup"
    /\ UNCHANGED <<duplicates, args, shown, deleted, successful, failed, at, exit_code>>

\* the prompt is answered otherwise: "Operation cancelled by user", return 0
PromptCancelled ==
    /\ mpc = "confirm"
    /\ duplicates # <<>>
    /\ ~args.dry_run /\ ~args.auto_confirm
    /\ \E answer \in Answers :
           /\ ~ConfirmedBy(answer)
           /\ response' = answer
    /\ exit_code' = 0
    /\ mpc' = "exit"
    /\ UNCHANGED <<duplicates, args, shown, deleted, successful, failed, at>>

\* the final summary: return 0 if failed == 0 else 1
FinalSummary ==
    /\ mpc = "final"
    /\ exit_code' = IF failed = 0 THEN 0 ELSE 1
    /\ mpc' = "exit"
    /\ UNCHANGED <<duplicates, args, response, shown, deleted, successful, failed, at>>

\* the artists api.get_artists() returns: all are named, a numbered one may
\* lack an id
CatalogFields ==
    [artistName : {NameA, NameB}, hasId : {TRUE}]
        \cup [artistName : {NameA2, NameA3}, hasId : BOOLEAN]

\* artists: any list of at most MaxArtists such dicts; the flags: any
InitMain ==
    /\ \E n \in 0..MaxArtists : \E fields \in [1..n -> CatalogFields] :
           artists = [j \in 1..n |->
                         [id |-> IF fields[j].hasId THEN j ELSE 0,
                          hasName |-> TRUE,
                          artistName |-> fields[j].artistName]]
    /\ args \in [dry_run : BOOLEAN, auto_confirm : BOOLEAN]
    /\ mpc = "fetched"
    /\ response = "none"
    /\ shown = FALSE
    /\ deleted = <<>>
    /\ successful = 0
    /\ failed = 0
    /\ at = <<1, 1>>
    /\ exit_code = -1
    /\ pc = "idle"
    /\ idx = 1
    /\ numbered_duplicates = <<>>
    /\ name_groups = <<>>
    /\ duplicates = <<>>
    /\ log = <<>>
    /\ name = <<>>
    /\ normalized = <<>>
    /\ npc = "idle"
    /\ calls = 0
    /\ result = <<>>

\* what no step of main or cleanup_duplicates assigns
mainFrame == <<artists, pc, idx, numbered_duplicates, name_groups, log, nnVars>>

NextMain ==
    \/ NoArtists /\ UNCHANGED mainFrame
    \/ DetectDuplicates /\ UNCHANGED mainFrame
    \/ DisplaySummary /\ UNCHANGED mainFrame
    \/ NoDuplicates /\ UNCHANGED mainFrame
    \/ NoPrompt /\ UNCHANGED mainFrame
    \/ PromptConfirmed /\ UNCHANGED mainFrame
    \/ PromptCancelled /\ UNCHANGED mainFrame
    \/ CleanupDryRun /\ UNCHANGED <<mainFrame, duplicates>>
    \/ CleanupStart /\ UNCHANGED <<mainFrame, duplicates>>
    \/ DeleteMissingId /\ UNCHANGED <<mainFrame, duplicates>>
    \/ DeleteArtist /\ UNCHANGED <<mainFrame, duplicates>>
    \/ CleanupReturn /\ UNCHANGED <<mainFrame, duplicates>>
    \/ FinalSummary /\ UNCHANGED mainFrame

SpecMain == InitMain /\ [][NextMain]_vars

----------------------------------------------------------------------------
(* Vocabulary of the properties *)

Returned == pc = "done"

NameOf(i) == GetName(artists[i])

\* the entry carries a numeric suffix
Numbered(i) == Matches(NameOf(i))

\* the normalized base of a numbered entry, and its parsed suffix
BaseKey(i) == normalize_name(Strip(Group1(NameOf(i))))
Suffix(i) == ParseInt(Group2(NameOf(i)))

\* the entries that normalize to the key and carry no numeric suffix
Originals(key) ==
    {i \in DOMAIN artists : normalize_name(NameOf(i)) = key /\ ~Numbered(i)}

\* the named entries with the normalized name key
Sharing(key) ==
    {i \in DOMAIN artists : NameOf(i) # <<>> /\ normalize_name(NameOf(i)) = key}

\* the artists of one duplicate list
Listed(list) == {list[m].artist : m \in DOMAIN list}

\* the strategy that wrote the group now recorded under the key
Strategy(key) ==
    log[Max({q \in DOMAIN log : log[q].base_name = key})].kind

----------------------------------------------------------------------------
(* C1: in the mapping find_duplicates returns, no entry is in the duplicate *)
(* lists of two groups and none is twice in one list.                       *)
C1_NoEntryFlaggedTwice ==
    Returned =>
        /\ \A j1, j2 \in DOMAIN duplicates :
               j1 # j2 => Listed(duplicates[j1].v) \cap Listed(duplicates[j2].v) = {}
        /\ \A j \in DOMAIN duplicates : \A m1, m2 \in DOMAIN duplicates[j].v :
               m1 # m2 => duplicates[j].v[m1].artist # duplicates[j].v[m2].artist

(* C2: the keeper of a group, the first original candidate of a numbered   *)
(* group and the first-seen member of an exact group, is not in that       *)
(* group's duplicate list.                                                 *)
C2_KeeperNotInOwnList ==
    \A j \in DOMAIN duplicates :
        LET key == duplicates[j].k
            keeper == IF Strategy(key) = "numbered"
                      THEN artists[Min(Originals(normalize_name(key)))]
                      ELSE artists[Min(Sharing(normalize_name(key)))]
        IN  /\ GetName(keeper) = key
            /\ keeper \notin Listed(duplicates[j].v)

C2_Witness ==
    /\ Returned
    /\ \E j1, j2 \in DOMAIN duplicates :
           /\ Strategy(duplicates[j1].k) = "numbered"
           /\ Strategy(duplicates[j2].k) = "exact"

(* C3: a group written by the numeric-suffix strategy is keyed by the raw  *)
(* name of the first entry that normalizes to the base key and carries no  *)
(* suffix, and its list is in strictly ascending order of the suffix,      *)
(* whatever the order of the input.                                        *)
C3_NumberedGroupKeyedAndSorted ==
    \A j \in DOMAIN duplicates :
        Strategy(duplicates[j].k) = "numbered" =>
            LET list == duplicates[j].v
                key == normalize_name(list[1].base_name)
            IN  /\ Originals(key) # {}
                /\ duplicates[j].k = NameOf(Min(Originals(key)))
                /\ \A m \in DOMAIN list :
                       /\ list[m].artist.id \in DOMAIN artists
                       /\ Numbered(list[m].artist.id)
                       /\ BaseKey(list[m].artist.id) = key
                /\ \A m1, m2 \in DOMAIN list :
                       m1 < m2 => Suffix(list[m1].artist.id) < Suffix(list[m2].artist.id)

C3_Witness ==
    /\ Returned
    /\ \E j \in DOMAIN duplicates :
           /\ Strategy(duplicates[j].k) = "numbered"
           /\ Len(duplicates[j].v) >= 2
           /\ duplicates[j].v[1].artist.id > duplicates[j].v[2].artist.id
           /\ duplicates[j].v[2].artist.id < Min(Originals(normalize_name(duplicates[j].k)))

(* C4: whenever a base key has an original candidate, every entry whose    *)
(* name carries a numeric suffix on that base is in the duplicate list of  *)
(* that key's group in the mapping returned.                               *)
C4_NoNumberedEntryDropped ==
    Returned =>
        \A i \in DOMAIN artists :
            (Numbered(i) /\ Originals(BaseKey(i)) # {}) =>
                LET key == NameOf(Min(Originals(BaseKey(i))))
                IN  /\ key \in Keys(duplicates)
                    /\ artists[i] \in Listed(Get(duplicates, key))

(* C5, as claimed: numbered variants of a base without any original are in *)
(* no duplicate list of the mapping returned, and none of them names a     *)
(* group.                                                                  *)
C5_NoGroupWithoutOriginal ==
    Returned =>
        \A i \in DOMAIN artists :
            (Numbered(i) /\ Originals(BaseKey(i)) = {}) =>
                /\ \A j \in DOMAIN duplicates :
                       artists[i] \notin Listed(duplicates[j].v)
                /\ NameOf(i) \notin Keys(duplicates)

(* C5, amended: for numbered variants of a base without any original the   *)
(* numeric-suffix strategy writes no group, and such a variant is in a     *)
(* duplicate list only as an exact duplicate: in the group keyed by the    *)
(* raw name of the first, earlier entry with the same normalized name.     *)
C5_OnlyExactWithoutOriginal ==
    \A i \in DOMAIN artists :
        (Numbered(i) /\ Originals(BaseKey(i)) = {}) =>
            /\ \A q \in DOMAIN log :
                   log[q].kind = "numbered" =>
                       normalize_name(log[q].base_name) # BaseKey(i)
            /\ \A j \in DOMAIN duplicates :
                   artists[i] \in Listed(duplicates[j].v) =>
                       LET first == Min(Sharing(normalize_name(NameOf(i))))
                       IN  /\ first < i
                           /\ duplicates[j].k = NameOf(first)
                           /\ Strategy(duplicates[j].k) = "exact"

C5_Witness ==
    /\ Returned
    /\ \E i1, i2 \in DOMAIN artists :
           /\ Numbered(i1) /\ Originals(BaseKey(i1)) = {}
           /\ Numbered(i2) /\ Originals(BaseKey(i2)) = {}
           /\ BaseKey(i1) = BaseKey(i2)
           /\ Suffix(i1) # Suffix(i2)
           /\ \A j \in DOMAIN duplicates : artists[i1] \notin Listed(duplicates[j].v)
           /\ \E j \in DOMAIN duplicates : artists[i2] \in Listed(duplicates[j].v)

\* the numeric-suffix strategy recorded a group for the normalized key
Resolved(key) ==
    /\ key \in Keys(numbered_duplicates)
    /\ Originals(key) # {}

\* the artists at the given positions, in input order
InInputOrder(S) == LET order == Ascending(S) IN [m \in DOMAIN order |-> artists[order[m]]]

(* C6: every normalized name that more than one entry has and that the     *)
(* numeric-suffix strategy did not resolve has a group in the mapping      *)
(* returned, keyed by the raw name of the first such entry, whose list is  *)
(* the remaining entries in input order.                                   *)
C6_EveryExactGroupReported ==
    Returned =>
        \A i \in DOMAIN artists :
            LET key == normalize_name(NameOf(i))
                group == Sharing(key)
            IN  (key # <<>> /\ i = Min(group) /\ Cardinality(group) > 1
                    /\ ~Resolved(key)) =>
                    /\ NameOf(i) \in Keys(duplicates)
                    /\ [m \in DOMAIN Get(duplicates, NameOf(i)) |->
                           Get(duplicates, NameOf(i))[m].artist]
                         = InInputOrder(group \ {i})

(* C7: a group the numeric-suffix strategy recorded is still, in the       *)
(* mapping returned, the list that strategy built: the exact pass neither  *)
(* replaces nor empties it.                                                *)
C7_ExactPassKeepsNumberedGroup ==
    Returned =>
        \A q \in DOMAIN numbered_duplicates :
            LET key == numbered_duplicates[q].k
                numbered_artists == numbered_duplicates[q].v
            IN  Originals(key) # {} =>
                    /\ NameOf(Min(Originals(key))) \in Keys(duplicates)
                    /\ Listed(Get(duplicates, NameOf(Min(Originals(key)))))
                         = {numbered_artists[m].v.artist : m \in DOMAIN numbered_artists}

(* C8: normalize_name is idempotent: applied to its own result it returns  *)
(* that result.                                                            *)
C8_NormalizeIdempotent ==
    (calls = 2 /\ npc = "returned") => result = name

\* the characters step 3 of the specification strips: the straight and the
\* curly quotes and apostrophes
SpecifiedQuotes == {"\"", "'", "bdquo", "rsquo"}

\* the five steps of the specification, in order
FiveSteps(n) ==
    IF n = <<>> THEN <<>>
    ELSE LET trimmed == Strip(Lower(n))
             unquoted == SelectSeq(trimmed, LAMBDA c : c \notin SpecifiedQuotes)
             collapsed == CollapseSpaces(unquoted)
         IN  IF StartsWith(collapsed, The)
             THEN SubSeq(collapsed, 5, Len(collapsed))
             ELSE collapsed

(* C9: normalize_name returns what the five specified steps give: empty    *)
(* for empty, else lowercase and trim, strip every straight or curly       *)
(* quote, collapse whitespace runs, drop one leading "the ".               *)
C9_NormalizeIsFiveSteps ==
    (calls = 1 /\ npc = "returned") => result = FiveSteps(name)

(* C10: an entry without a numeric suffix whose normalized name no other   *)
(* entry has and no numbered entry has as its base is neither a group key  *)
(* nor in any duplicate list.                                              *)
C10_SingleEntryUntouched ==
    \A i \in DOMAIN artists :
        (/\ ~Numbered(i)
         /\ \A o \in DOMAIN artists :
                o # i => /\ normalize_name(NameOf(o)) # normalize_name(NameOf(i))
                         /\ Numbered(o) => BaseKey(o) # normalize_name(NameOf(i)))
        => /\ NameOf(i) \notin Keys(duplicates)
           /\ \A j \in DOMAIN duplicates : artists[i] \notin Listed(duplicates[j].v)

C10_Witness ==
    /\ Returned
    /\ \E j \in DOMAIN duplicates : Len(duplicates[j].v) >= 2
    /\ \E i \in DOMAIN artists :
           /\ NameOf(i) # <<>>
           /\ ~Numbered(i)
           /\ \A o \in DOMAIN artists :
                  o # i => /\ normalize_name(NameOf(o)) # normalize_name(NameOf(i))
                           /\ Numbered(o) => BaseKey(o) # normalize_name(NameOf(i))

(* C11: entries without a name or with an empty one are no-ops:           *)
(* find_duplicates raises no exception on any list, and such an entry is   *)
(* never the keeper of a group and never in a duplicate list.  (These are  *)
(* the parts of the claim that do not compare two calls; the claim also    *)
(* says the result is that of the list without those entries.)             *)
C11_NamelessEntriesAreNoOps ==
    /\ pc # "raised"
    /\ Returned =>
           \A i \in DOMAIN artists :
               NameOf(i) = <<>> =>
                   /\ NameOf(i) \notin Keys(duplicates)
                   /\ \A j \in DOMAIN duplicates :
                          artists[i] \notin Listed(duplicates[j].v)

\* the entry the group recorded under the key keeps
KeeperOf(key) ==
    IF Strategy(key) = "numbered"
    THEN artists[Min(Originals(normalize_name(key)))]
    ELSE artists[Min(Sharing(normalize_name(key)))]

(* C15: across the mapping returned, the keeper of a group is in the       *)
(* duplicate list of no group.                                             *)
C15_KeeperNeverListed ==
    Returned =>
        \A j1, j2 \in DOMAIN duplicates :
            KeeperOf(duplicates[j1].k) \notin Listed(duplicates[j2].v)

\* the records of the mapping in the order cleanup_duplicates meets them:
\* group after group, each list from its first record on
RECURSIVE Flatten(_)
Flatten(dups) ==
    IF dups = <<>> THEN <<>> ELSE Head(dups).v \o Flatten(Tail(dups))

\* the number of records the loops of cleanup_duplicates have dealt with
Processed ==
    Len(Flatten(SubSeq(duplicates, 1, at[1] - 1))) + (at[2] - 1)

\* the ids of the records that have one, in order
IdsOf(records) ==
    LET withId == SelectSeq(records, LAMBDA r : r.artist.id # 0)
    IN  [m \in DOMAIN withId |-> withId[m].artist.id]

Live == ~args.dry_run

(* C12: in dry-run mode no deletion call is ever issued and                *)
(* cleanup_duplicates never enters its loops, and the mapping main works   *)
(* on, before cleanup_duplicates and after its return, is what             *)
(* find_duplicates gives for the entry list, whatever the mode.            *)
C12_DryRunDeletesNothing ==
    /\ args.dry_run => (deleted = <<>> /\ mpc # "deleting")
    /\ (args.dry_run /\ mpc = "final") =>
           (successful = total_to_remove(duplicates) /\ failed = 0)
    /\ mpc \in {"display", "confirm", "cleanup", "final"} =>
           duplicates = find_duplicates.duplicates

C12_Witness ==
    /\ args.dry_run
    /\ mpc = "final"
    /\ Len(duplicates) >= 2
    /\ successful >= 3

(* C13, as claimed: in live mode cleanup_duplicates has, on return, issued *)
(* exactly one delete call per duplicate, in the order of the mapping, and *)
(* successful + failed is the number of duplicates.                        *)
C13_OneDeleteCallPerDuplicate ==
    (Live /\ mpc = "final") =>
        /\ Len(deleted) = total_to_remove(duplicates)
        /\ deleted = [m \in DOMAIN Flatten(duplicates) |->
                         Flatten(duplicates)[m].artist.id]
        /\ successful + failed = total_to_remove(duplicates)

(* C13, amended: in live mode cleanup_duplicates deals with every          *)
(* duplicate once, in the order of the mapping, issuing one delete call    *)
(* for each duplicate that has an id and none for one without, which it    *)
(* counts as failed; no failure stops it, and on return successful +       *)
(* failed is the number of duplicates.                                     *)
C13_OneDeleteCallPerIdentifiedDuplicate ==
    (Live /\ mpc \in {"deleting", "final"}) =>
        LET dealt == SubSeq(Flatten(duplicates), 1, Processed)
        IN  /\ Processed <= Len(Flatten(duplicates))
            /\ deleted = IdsOf(dealt)
            /\ successful + failed = Processed
            /\ failed >= Len(dealt) - Len(deleted)
            /\ mpc = "final" => Processed = total_to_remove(duplicates)

C13_Witness ==
    /\ Live
    /\ mpc = "final"
    /\ Len(duplicates) >= 2
    /\ MissingId(Flatten(duplicates)[1].artist)
    /\ Len(deleted) = 2
    /\ failed = 2
    /\ successful = 1

(* C14: a delete call happens only after the summary was displayed, with   *)
(* dry-run off and with --auto-confirm given or the prompt answered "yes"  *)
(* or "y"; any other answer ends the run without a delete call.            *)
C14_DeleteOnlyWhenConfirmed ==
    /\ deleted # <<>> =>
           /\ shown
           /\ ~args.dry_run
           /\ args.auto_confirm \/ response \in {"yes", "y"}
    /\ response \notin {"none", "yes", "y"} =>
           (mpc = "exit" /\ exit_code = 0 /\ deleted = <<>>)

C14_Witness ==
    /\ mpc = "exit"
    /\ response = "y"
    /\ ~args.auto_confirm
    /\ Len(deleted) >= 2

====
